---- MODULE Spec2Model ----
(***************************************************************************)
(* Model of the Reference Parsing & Retrieval Engine of bible.rs:          *)
(*   db/src/models/reference.rs  Reference, Display, FromStr, parse_num    *)
(*   db/src/sword_drill.rs       SwordDrill::book, ::verses, ::search      *)
(*   web/src/responder/data.rs   VersesData::new                           *)
(*   web/src/controllers/api.rs  search, JsonError                         *)
(* A string is a sequence of characters; a character is named by a TLA+    *)
(* string ("a", "B", "1", " ", ":", ".", "-", and the two non-ASCII        *)
(* characters "e_acute" (U+00E9, alphabetic, 2 bytes in UTF-8) and "sup2"  *)
(* (U+00B2, numeric but not a decimal digit, 2 bytes in UTF-8)).           *)
(* In a search query "quote" is the double quote and "*" the asterisk.     *)
(***************************************************************************)
EXTENDS Integers, Sequences, FiniteSets, TLC

VARIABLES
    s,            \* the raw citation handed to Reference::from_str
    pc,           \* position of the parse request: "call", "returned", "shown"
    result,       \* what from_str returned (or that it panicked)
    shown,        \* the to_string() of the parsed Reference
    reference,    \* the Reference handed to SwordDrill::verses
    format,       \* the VerseFormat handed to SwordDrill::verses
    conn,         \* how the storage handle behaves for this call: "up" or a storage failure
    drill_pc,     \* position of the retrieval request: "call", "returned", "built"
    drill_result, \* what SwordDrill::verses returned
    payload,      \* the VersesData built from the retrieved verses
    asked_book,   \* the token handed to SwordDrill::book
    book_pc,      \* position of the book request: "call", "returned"
    book_result,  \* what SwordDrill::book returned
    query_q,      \* the text handed to SwordDrill::search and to the search endpoint
    pool,         \* whether the pool hands out a connection: "ok" or "timed_out"
    search_pc,    \* position of the SwordDrill::search call: "call", "returned"
    search_result, \* what SwordDrill::search returned
    sent,         \* the expressions SwordDrill::search sent to storage
    api_pc,       \* position of the search endpoint request: "call", "responded"
    response,     \* the response of the search endpoint
    ref_pc,       \* position of the reference endpoint request: "call", "responded"
    ref_response, \* the response of the reference endpoint
    scan_pc,      \* position inside from_str: "idle", "check", "loop", "done"
    scan_p,       \* the locals of from_str: state and the four buffers
    scan_i,       \* how many characters s.chars() has yielded
    scan_result,  \* what from_str returns at its end
    link_book,    \* the Book handed to VersesLinks::new
    link_chapter, \* the chapter of the Reference handed to VersesLinks::new
    link_pc,      \* position of the VersesLinks::new call: "idle", "call", "built"
    links,        \* the VersesLinks built: chapter, previous, next
    req_kind,     \* per request: the engine call its handler makes
    req_pc,       \* per request: where its handler is
    held,         \* per request: the pooled connections its closure holds
    checked_out   \* the connections checked out of the pool

vars ==
    <<s, pc, result, shown, reference, format, conn, drill_pc, drill_result, payload,
      asked_book, book_pc, book_result, query_q, pool, search_pc, search_result, sent,
      api_pc, response, ref_pc, ref_response, scan_pc, scan_p, scan_i, scan_result,
      link_book, link_chapter, link_pc, links, req_kind, req_pc, held, checked_out>>

scan_vars == <<scan_pc, scan_p, scan_i, scan_result>>

link_vars == <<link_book, link_chapter, link_pc, links>>

pool_vars == <<req_kind, req_pc, held, checked_out>>

rest_vars == <<scan_vars, link_vars, pool_vars>>

search_vars ==
    <<query_q, pool, search_pc, search_result, sent, api_pc, response, ref_pc,
      ref_response>>

parse_vars == <<s, pc, result, shown>>
drill_vars ==
    <<reference, format, conn, drill_pc, drill_result, payload, asked_book, book_pc,
      book_result>>

(***************************************************************************)
(* Bounds of the model.                                                    *)
(***************************************************************************)
\* longest citation drawn exhaustively over Alphabet
MaxLen == 4
\* largest chapter and verse number written into a structured citation
MaxNum == 12
\* how far below and above MAX_REFERENCE_SIZE the padded citations reach
PadSpread == 2
\* longest tail appended to a padded citation
MaxTail == 2
\* largest chapter number of a Reference handed to SwordDrill::verses
MaxChapter == 3
\* largest verse number of a Reference handed to SwordDrill::verses
MaxVerse == 4

(***************************************************************************)
(* Characters: the classes and conversions of char and str that from_str   *)
(* and SwordDrill use.                                                     *)
(***************************************************************************)
AsciiDigits == <<"0", "1", "2", "3", "4", "5", "6", "7", "8", "9">>

IsAsciiDigit(c) == \E k \in 1..10 : AsciiDigits[k] = c

DigitValue(c) == (CHOOSE k \in 1..10 : AsciiDigits[k] = c) - 1

\* char::is_numeric: the decimal digits and the other numeric characters (U+00B2)
is_numeric(c) == IsAsciiDigit(c) \/ c = "sup2"

\* char::is_alphabetic
is_alphabetic(c) == c \in {"a", "b", "A", "B", "e_acute"}

\* char::is_whitespace
is_whitespace(c) == c = " "

\* the number of bytes of the character in UTF-8
len_utf8(c) == IF c \in {"e_acute", "sup2"} THEN 2 ELSE 1

RECURSIVE ByteLenBetween(_, _, _)
\* the number of bytes of the characters lo..hi of str, summed by halves
ByteLenBetween(str, lo, hi) ==
    IF lo > hi THEN 0
    ELSE IF lo = hi THEN len_utf8(str[lo])
    ELSE ByteLenBetween(str, lo, (lo + hi) \div 2)
         + ByteLenBetween(str, ((lo + hi) \div 2) + 1, hi)

\* the number of bytes of the first k characters of str
ByteLenTo(str, k) == ByteLenBetween(str, 1, k)

\* str::len: the length in bytes
len(str) == ByteLenTo(str, Len(str))

\* str::is_char_boundary
is_char_boundary(str, n) == \E k \in 0..Len(str) : ByteLenTo(str, k) = n

\* &str[..n]: the prefix of n bytes; a panic when n is past the end or inside a
\* character
slice_to(str, n) ==
    IF is_char_boundary(str, n)
    THEN [panic |-> FALSE,
          val |-> SubSeq(str, 1, CHOOSE k \in 0..Len(str) : ByteLenTo(str, k) = n)]
    ELSE [panic |-> TRUE, val |-> <<>>]

RECURSIVE trim_start(_)
trim_start(str) ==
    IF str # <<>> /\ is_whitespace(Head(str)) THEN trim_start(Tail(str)) ELSE str

RECURSIVE trim_end(_)
trim_end(str) ==
    IF str # <<>> /\ is_whitespace(str[Len(str)])
    THEN trim_end(SubSeq(str, 1, Len(str) - 1))
    ELSE str

\* str::trim
trim(str) == trim_end(trim_start(str))

I32_MAX == 2147483647

RECURSIVE ParseDigits_Saturating(_, _, _)
RECURSIVE ParseDigits(_, _, _)
\* the accumulation of i32::from_str stopping at the largest i32 instead of
\* failing
ParseDigits_Saturating(buf, k, acc) ==
    IF k > Len(buf) THEN [ok |-> TRUE, val |-> acc]
    ELSE IF ~IsAsciiDigit(buf[k]) THEN [ok |-> FALSE, val |-> 0]
    ELSE IF acc > (I32_MAX - DigitValue(buf[k])) \div 10 THEN [ok |-> TRUE, val |-> I32_MAX]
    ELSE ParseDigits_Saturating(buf, k + 1, acc * 10 + DigitValue(buf[k]))

\* the checked accumulation of i32::from_str over the digits from position k:
\* acc * 10 + digit, an error on a character that is no decimal digit or on overflow
ParseDigits(buf, k, acc) ==
    IF k > Len(buf) THEN [ok |-> TRUE, val |-> acc]
    ELSE IF ~IsAsciiDigit(buf[k]) THEN [ok |-> FALSE, val |-> 0]
    ELSE IF acc > (I32_MAX - DigitValue(buf[k])) \div 10 THEN [ok |-> FALSE, val |-> 0]
    ELSE ParseDigits(buf, k + 1, acc * 10 + DigitValue(buf[k]))

\* str::parse::<i32> on a buffer of numeric characters (no sign is ever pushed)
str_parse_i32(buf) ==
    IF buf = <<>> THEN [ok |-> FALSE, val |-> 0] ELSE ParseDigits(buf, 1, 0)

RECURSIVE fmt_nat(_)
\* Display of a non-negative i32: its decimal digits, no leading zero
fmt_nat(n) ==
    IF n < 10 THEN <<AsciiDigits[n + 1]>>
    ELSE fmt_nat(n \div 10) \o <<AsciiDigits[(n % 10) + 1]>>

\* Display of an i32
fmt_i32(n) == IF n < 0 THEN <<"-">> \o fmt_nat(0 - n) ELSE fmt_nat(n)

(***************************************************************************)
(* Reference and Reference::from_str.                                      *)
(***************************************************************************)
MAX_REFERENCE_SIZE == 100

\* verses: None is <<>>, Some(a..=b) is <<a, b>>
Ok(book, chapter, verses) ==
    [tag |-> "Ok", book |-> book, chapter |-> chapter, verses |-> verses, reference |-> <<>>]

InvalidReference(raw) ==
    [tag |-> "InvalidReference", book |-> <<>>, chapter |-> 0, verses |-> <<>>,
     reference |-> raw]

Panic == [tag |-> "Panic", book |-> <<>>, chapter |-> 0, verses |-> <<>>, reference |-> <<>>]

Pending == [tag |-> "Pending", book |-> <<>>, chapter |-> 0, verses |-> <<>>, reference |-> <<>>]

\* the locals of from_str before the loop
Locals0 ==
    [state |-> "Init", book_part |-> <<>>, chapter_part |-> <<>>,
     verse_from_part |-> <<>>, verse_to_part |-> <<>>]

StateInit(p, c) ==
    [p EXCEPT !.book_part = Append(@, c), !.state = "Book"]

StateBook(p, c) ==
    IF is_numeric(c)
    THEN [p EXCEPT !.chapter_part = Append(@, c), !.state = "Chapter"]
    ELSE IF is_alphabetic(c) \/ is_whitespace(c)
    THEN [p EXCEPT !.book_part = Append(@, c)]
    ELSE p

\* the Chapter arm with ':' as the only separator
StateChapter_ColonOnly(p, c) ==
    IF is_numeric(c)
    THEN [p EXCEPT !.chapter_part = Append(@, c)]
    ELSE IF c = ":"
    THEN [p EXCEPT !.state = "VerseFrom"]
    ELSE p

\* the Chapter arm with a letter still added to the book buffer
StateChapter_LettersToBook(p, c) ==
    IF is_numeric(c)
    THEN [p EXCEPT !.chapter_part = Append(@, c)]
    ELSE IF c = ":" \/ c = "."
    THEN [p EXCEPT !.state = "VerseFrom"]
    ELSE IF is_alphabetic(c)
    THEN [p EXCEPT !.book_part = Append(@, c)]
    ELSE p

StateChapter(p, c) ==
    IF is_numeric(c)
    THEN [p EXCEPT !.chapter_part = Append(@, c)]
    ELSE IF c = ":" \/ c = "."
    THEN [p EXCEPT !.state = "VerseFrom"]
    ELSE p

StateVerseFrom(p, c) ==
    IF c = "-"
    THEN [p EXCEPT !.state = "VerseTo"]
    ELSE IF is_numeric(c)
    THEN [p EXCEPT !.verse_from_part = Append(@, c)]
    ELSE p

\* the VerseTo arm with a dash starting the verses again
StateVerseTo_DashRestarts(p, c) ==
    IF is_numeric(c)
    THEN [p EXCEPT !.verse_to_part = Append(@, c)]
    ELSE IF c = "-"
    THEN [p EXCEPT !.state = "VerseFrom"]
    ELSE p

StateVerseTo(p, c) ==
    IF is_numeric(c)
    THEN [p EXCEPT !.verse_to_part = Append(@, c)]
    ELSE p

\* one iteration of the loop: the match on the state
Consume(p, c) ==
    CASE p.state = "Init" -> StateInit(p, c)
      [] p.state = "Book" -> StateBook(p, c)
      [] p.state = "Chapter" -> StateChapter(p, c)
      [] p.state = "VerseFrom" -> StateVerseFrom(p, c)
      [] p.state = "VerseTo" -> StateVerseTo(p, c)

States == {"Init", "Book", "Chapter", "VerseFrom", "VerseTo"}

RECURSIVE ScanBetween(_, _, _, _)
\* the locals after the iterations for the characters lo..hi of str, in order,
\* starting from the locals p (the range is walked by halves, the first half
\* evaluated before the second)
ScanBetween(p, str, lo, hi) ==
    IF lo > hi THEN p
    ELSE IF lo = hi THEN Consume(p, str[lo])
    ELSE LET q == ScanBetween(p, str, lo, (lo + hi) \div 2)
         IN  IF q.state \in States
             THEN ScanBetween(q, str, ((lo + hi) \div 2) + 1, hi)
             ELSE q

\* the locals after the loop over s.chars()
Scan(str) == ScanBetween(Locals0, str, 1, Len(str))

\* parse_num: the error carries the buffer it was given
parse_num(buf) ==
    LET n == str_parse_i32(buf)
    IN  IF n.ok THEN [ok |-> TRUE, val |-> n.val, err |-> Pending]
        ELSE [ok |-> FALSE, val |-> 0, err |-> InvalidReference(buf)]

\* the same construction with verses None unless a verse-to digit was read
Finish_NoneWithoutVerseTo(raw, p) ==
    LET chapter == str_parse_i32(p.chapter_part)
        from == parse_num(p.verse_from_part)
        to == parse_num(p.verse_to_part)
    IN  IF ~chapter.ok THEN InvalidReference(raw)
        ELSE IF p.verse_to_part = <<>> THEN Ok(trim(p.book_part), chapter.val, <<>>)
        ELSE IF ~from.ok THEN from.err
        ELSE IF ~to.ok THEN to.err
        ELSE Ok(trim(p.book_part), chapter.val, <<from.val, to.val>>)

\* the construction of the Reference from the buffers, each ? returning early
Finish(raw, p) ==
    LET chapter == str_parse_i32(p.chapter_part)
        from == parse_num(p.verse_from_part)
        to == IF p.verse_to_part = <<>>
              THEN parse_num(p.verse_from_part)
              ELSE parse_num(p.verse_to_part)
    IN  IF ~chapter.ok THEN InvalidReference(raw)
        ELSE IF p.verse_from_part = <<>> THEN Ok(trim(p.book_part), chapter.val, <<>>)
        ELSE IF ~from.ok THEN from.err
        ELSE IF ~to.ok THEN to.err
        ELSE Ok(trim(p.book_part), chapter.val, <<from.val, to.val>>)

\* the length check: the error is built from s[..MAX_REFERENCE_SIZE]
LengthCheck(raw) ==
    LET cut == slice_to(raw, MAX_REFERENCE_SIZE)
    IN  IF cut.panic THEN Panic ELSE InvalidReference(cut.val)

from_str(raw) ==
    IF len(raw) > MAX_REFERENCE_SIZE \/ raw = <<>>
    THEN LengthCheck(raw)
    ELSE Finish(raw, Scan(raw))

\* Display with the range form written for a single verse too
fmt_AlwaysRange(r) ==
    IF r.verses = <<>>
    THEN r.book \o <<" ">> \o fmt_i32(r.chapter)
    ELSE r.book \o <<" ">> \o fmt_i32(r.chapter) \o <<":">> \o fmt_i32(r.verses[1])
         \o <<"-">> \o fmt_i32(r.verses[2])

\* impl Display for Reference
fmt(r) ==
    IF r.verses = <<>>
    THEN r.book \o <<" ">> \o fmt_i32(r.chapter)
    ELSE IF r.verses[1] = r.verses[2]
    THEN r.book \o <<" ">> \o fmt_i32(r.chapter) \o <<":">> \o fmt_i32(r.verses[1])
    ELSE r.book \o <<" ">> \o fmt_i32(r.chapter) \o <<":">> \o fmt_i32(r.verses[1])
         \o <<"-">> \o fmt_i32(r.verses[2])

(***************************************************************************)
(* Storage: the books, book_abbreviations, verses and verses_html tables.  *)
(***************************************************************************)
Books ==
    {[id |-> 1, name |-> <<"B", "a">>, chapter_count |-> 2, testament |-> "Old"],
     [id |-> 2, name |-> <<"1", " ", "A">>, chapter_count |-> 1, testament |-> "New"]}

NoBook == [id |-> 0, name |-> <<>>, chapter_count |-> 0, testament |-> "Old"]

\* every abbreviation is stored in lower case; the name of a book is one of them
BookAbbreviations ==
    {[book_id |-> 1, abbreviation |-> <<"b", "a">>],
     [book_id |-> 1, abbreviation |-> <<"b">>],
     [book_id |-> 2, abbreviation |-> <<"1", " ", "a">>],
     [book_id |-> 2, abbreviation |-> <<"1", "a">>]}

\* <<book, chapter, number of verses>> of every stored chapter
Chapters == {<<1, 1, 3>>, <<1, 2, 2>>, <<2, 1, 2>>}

\* the rows of a verse table whose words are in the given markup
VerseRows(markup) ==
    UNION {{[id |-> (ch[1] * 100) + (ch[2] * 10) + v, book |-> ch[1], chapter |-> ch[2],
             verse |-> v, words |-> markup] : v \in 1..ch[3]} : ch \in Chapters}

\* the table a VerseFormat selects: verses or verses_html
VerseTable(fmt_) == IF fmt_ = "PlainText" THEN VerseRows("plain") ELSE VerseRows("html")

\* char::to_lowercase
char_to_lowercase(c) == IF c = "A" THEN "a" ELSE IF c = "B" THEN "b" ELSE c

\* str::to_lowercase
to_lowercase(str) == [k \in 1..Len(str) |-> char_to_lowercase(str[k])]

RECURSIVE OrderBy(_)
\* order_by((chapter.asc(), verse.asc())) over a set of rows
OrderBy(rows) ==
    IF rows = {} THEN <<>>
    ELSE LET first == CHOOSE r \in rows :
                          \A o \in rows :
                              \/ r.chapter < o.chapter
                              \/ r.chapter = o.chapter /\ r.verse <= o.verse
         IN  <<first>> \o OrderBy(rows \ {first})

\* Ok((Book, Vec<Verse>)) of SwordDrill::verses
DrillOk(book, rows) ==
    [tag |-> "Ok", book |-> book, verses |-> rows, chapters |-> <<>>, not_found |-> <<>>,
     cause |-> ""]

\* Ok((Book, Vec<i32>)) of SwordDrill::book
BookOk(book, chapters) ==
    [tag |-> "Ok", book |-> book, verses |-> <<>>, chapters |-> chapters,
     not_found |-> <<>>, cause |-> ""]

BookNotFound(name) ==
    [tag |-> "BookNotFound", book |-> NoBook, verses |-> <<>>, chapters |-> <<>>,
     not_found |-> name, cause |-> ""]

\* the failures a query can end with: the table is missing, the file is locked
StorageFailures == {"no_table", "locked"}

\* Display of the storage error (e.to_string()): the message of the failure
Error_to_string(e) ==
    CASE e = "no_table" -> "no such table"
      [] e = "locked" -> "database is locked"
      [] OTHER -> "unknown"

\* map_err(|e| DbError::Other { cause: e.to_string() }): the cause text
map_err(e) == Error_to_string(e)

Other(cause) ==
    [tag |-> "Other", book |-> NoBook, verses |-> <<>>, chapters |-> <<>>,
     not_found |-> <<>>, cause |-> cause]

DrillPending ==
    [tag |-> "Pending", book |-> NoBook, verses |-> <<>>, chapters |-> <<>>,
     not_found |-> <<>>, cause |-> ""]

\* SwordDrill::book with the name compared as it was given
SwordDrill_book_AsGiven(book_name, db) ==
    LET found == {b \in Books :
                     \E ba \in BookAbbreviations :
                         ba.book_id = b.id /\ ba.abbreviation = book_name}
    IN  IF db # "up" THEN Other(map_err(db))
        ELSE IF found = {} THEN BookNotFound(book_name)
        ELSE LET book == CHOOSE b \in found : TRUE
             IN  BookOk(book, [k \in 1..book.chapter_count |-> k])

\* SwordDrill::book: the first book joined to an abbreviation equal to the
\* lowercased name
SwordDrill_book(book_name, db) ==
    LET found == {b \in Books :
                     \E ba \in BookAbbreviations :
                         ba.book_id = b.id /\ ba.abbreviation = to_lowercase(book_name)}
    IN  IF db # "up" THEN Other(map_err(db))
        ELSE IF found = {} THEN BookNotFound(book_name)
        ELSE LET book == CHOOSE b \in found : TRUE
             IN  BookOk(book, [k \in 1..book.chapter_count |-> k])

\* the query of SwordDrill::verses with the upper end of the range left out
VerseQuery_HalfOpen(table, book, ref) ==
    {v \in table :
        /\ v.book = book.id
        /\ v.chapter = ref.chapter
        /\ ref.verses # <<>> => (ref.verses[1] <= v.verse /\ v.verse < ref.verses[2])}

\* the boxed query of SwordDrill::verses: book and chapter filters, then the
\* between filter when the reference has verses
VerseQuery(table, book, ref) ==
    {v \in table :
        /\ v.book = book.id
        /\ v.chapter = ref.chapter
        /\ ref.verses # <<>> => (ref.verses[1] <= v.verse /\ v.verse <= ref.verses[2])}

\* SwordDrill::verses
SwordDrill_verses(ref, fmt_, db) ==
    LET resolved == SwordDrill_book(to_lowercase(ref.book), db)
    IN  IF resolved.tag # "Ok" THEN resolved
        ELSE DrillOk(resolved.book, OrderBy(VerseQuery(VerseTable(fmt_), resolved.book, ref)))

\* VersesData of a request that has built none
NoPayload ==
    [book |-> NoBook, reference |-> [book |-> <<>>, chapter |-> 0, verses |-> <<>>],
     reference_string |-> <<>>, verses |-> <<>>]

\* VersesData::new with the narrowed range ending at the requested end
VersesData_new_KeepEnd(book, rows, ref) ==
    LET narrowed == [book |-> book.name, chapter |-> ref.chapter,
                     verses |-> IF ref.verses # <<>> /\ Len(rows) > 0
                                THEN ref.verses ELSE <<>>]
    IN  [book |-> book, reference |-> narrowed, reference_string |-> fmt(narrowed),
         verses |-> rows]

\* VersesData::new: the book of the reference becomes the name of the resolved
\* book, its verses run from the requested start to the last retrieved verse
VersesData_new(book, rows, ref) ==
    LET narrowed == [book |-> book.name, chapter |-> ref.chapter,
                     verses |-> IF ref.verses = <<>> THEN <<>>
                                ELSE IF Len(rows) = 0 THEN <<>>
                                ELSE <<ref.verses[1], rows[Len(rows)].verse>>]
    IN  [book |-> book, reference |-> narrowed, reference_string |-> fmt(narrowed),
         verses |-> rows]

(***************************************************************************)
(* Full text search: the verses_fts table and SwordDrill::search.          *)
(***************************************************************************)
\* the number of rows of verses_fts
FtsSize == 20

\* Max number of search results returned from the database
SEARCH_RESULT_LIMIT == 15

\* the texts of the stored verses, each as the words its tokenizer yields
FtsTexts ==
    << << <<"a">> >>,
       << <<"a", "b">>, <<"b">> >>,
       << <<"b">>, <<"a">> >>,
       << <<"b", "a">>, <<"a", "b">> >> >>

\* the rows of verses_fts; rank is the relevance the engine gives a row, lower
\* is better, and rows may tie
VersesFts ==
    {[rowid |-> k, book |-> 1 + (k % 2), chapter |-> 1 + (k % 3), verse |-> k,
      text |-> FtsTexts[1 + (k % 4)], rank |-> 0 - ((k * 3) % 7)] : k \in 1..FtsSize}

\* the character class [a-zA-Z]
IsAsciiLetter(c) == c \in {"a", "b", "A", "B"}

\* the complement of the class [^a-zA-Z ] of ALPHA_NUM
IsAlphaOrSpace(c) == IsAsciiLetter(c) \/ c = " "

\* query.contains('"')
had_quote(query) == \E k \in 1..Len(query) : query[k] = "quote"

\* ALPHA_NUM.replace_all(query, "") with a class that lets digits through
replace_all_KeepDigits(query) ==
    LET keep(c) == IsAlphaOrSpace(c) \/ IsAsciiDigit(c) IN SelectSeq(query, keep)

\* ALPHA_NUM.replace_all(query, "")
replace_all(query) == SelectSeq(query, IsAlphaOrSpace)

\* format!("{}*", query) after the cleaned text got its quotes back
Expression(query) ==
    (IF had_quote(query)
     THEN <<"quote">> \o replace_all(query) \o <<"quote">>
     ELSE replace_all(query)) \o <<"*">>

\* the length of the run of letters a string starts with
LeadRun(str) ==
    CHOOSE n \in 0..Len(str) :
        /\ \A k \in 1..n : IsAsciiLetter(str[k])
        /\ n = Len(str) \/ ~IsAsciiLetter(str[n + 1])

RECURSIVE Terms(_)
\* the terms the engine reads in an expression: its runs of letters, case folded
Terms(str) ==
    IF str = <<>> THEN <<>>
    ELSE IF LeadRun(str) = 0 THEN Terms(Tail(str))
    ELSE <<to_lowercase(SubSeq(str, 1, LeadRun(str)))>>
         \o Terms(SubSeq(str, LeadRun(str) + 1, Len(str)))

\* a term against a word of a verse: a prefix when the wildcard is on the term
TermMatches(term, word, prefix) ==
    IF prefix
    THEN Len(term) <= Len(word) /\ SubSeq(word, 1, Len(term)) = term
    ELSE word = term

\* verses_fts::text.eq(expression): a quoted expression asks for its terms as
\* one phrase, an unquoted one for every term somewhere; a wildcard makes the
\* term before it a prefix
Matches(expression, text) ==
    LET terms == Terms(expression)
        n == Len(terms)
        starred(i) == i = n /\ expression[Len(expression)] = "*"
    IN  IF expression[1] = "quote"
        THEN \E off \in 0..(Len(text) - n) :
                 \A i \in 1..n : TermMatches(terms[i], text[off + i], starred(i))
        ELSE \A i \in 1..n :
                 \E j \in 1..Len(text) : TermMatches(terms[i], text[j], starred(i))

\* the rows of verses_fts joined to books that the filter lets through
Joined(expression) ==
    {[fts |-> x[1], book |-> x[2]] : x \in
        {y \in VersesFts \X Books : y[2].id = y[1].book /\ Matches(expression, y[1].text)}}

RECURSIVE OrderByRank(_, _)
\* order_by(verses_fts::rank); the engine settles rows of equal rank either
\* way
OrderByRank(rows, tie) ==
    IF rows = {} THEN <<>>
    ELSE LET before(r, o) ==
                 \/ r.fts.rank < o.fts.rank
                 \/ /\ r.fts.rank = o.fts.rank
                    /\ IF tie = "asc" THEN r.fts.rowid <= o.fts.rowid
                       ELSE r.fts.rowid >= o.fts.rowid
             first == CHOOSE r \in rows : \A o \in rows : before(r, o)
         IN  <<first>> \o OrderByRank(rows \ {first}, tie)

\* the (VerseFTS, Book) a joined row is loaded as
Loaded(row) ==
    [verse |-> [book |-> row.fts.book, chapter |-> row.fts.chapter,
                verse |-> row.fts.verse, words |-> "highlighted", rank |-> row.fts.rank],
     book |-> row.book]

\* the query of SwordDrill::search without its limit
Load_Unlimited(expression, tie) ==
    LET ordered == OrderByRank(Joined(expression), tie)
    IN  [k \in 1..Len(ordered) |-> Loaded(ordered[k])]

\* the query of SwordDrill::search: filter, order_by, limit, load
Load(expression, tie) ==
    LET ordered == OrderByRank(Joined(expression), tie)
        n == IF Len(ordered) < SEARCH_RESULT_LIMIT THEN Len(ordered)
             ELSE SEARCH_RESULT_LIMIT
    IN  [k \in 1..n |-> Loaded(ordered[k])]

SearchOk(rows) == [tag |-> "Ok", rows |-> rows, cause |-> ""]

SearchOther(cause) == [tag |-> "Other", rows |-> <<>>, cause |-> cause]

SearchPending == [tag |-> "Pending", rows |-> <<>>, cause |-> ""]

\* SwordDrill::search that runs the query whenever the cleaned text has a
\* character
SwordDrill_search_NoTrim(query, db, tie) ==
    IF replace_all(query) = <<>>
    THEN [result |-> SearchOk(<<>>), sent |-> <<>>]
    ELSE IF db # "up"
    THEN [result |-> SearchOther(map_err(db)), sent |-> <<Expression(query)>>]
    ELSE [result |-> SearchOk(Load(Expression(query), tie)), sent |-> <<Expression(query)>>]

\* SwordDrill::search: what it returns and the expressions it sent to storage
SwordDrill_search(query, db, tie) ==
    IF trim(replace_all(query)) = <<>>
    THEN [result |-> SearchOk(<<>>), sent |-> <<>>]
    ELSE IF db # "up"
    THEN [result |-> SearchOther(map_err(db)), sent |-> <<Expression(query)>>]
    ELSE [result |-> SearchOk(Load(Expression(query), tie)), sent |-> <<Expression(query)>>]

(***************************************************************************)
(* The search endpoint: controllers::api::search and JsonError.            *)
(***************************************************************************)
\* SearchResultPayload::from_verses
from_verses(book, rows) ==
    [k \in 1..Len(rows) |->
        [name |-> book.name, chapter |-> rows[k].chapter, verse |-> rows[k].verse,
         text |-> rows[k].words]]

\* SearchResultPayload::from_verses_fts
from_verses_fts(rows) ==
    [k \in 1..Len(rows) |->
        [name |-> rows[k].book.name, chapter |-> rows[k].verse.chapter,
         verse |-> rows[k].verse.verse, text |-> rows[k].verse.words]]

\* HttpResponse::Ok().json(payload)
HttpOk(matches) == [status |-> 200, matches |-> matches, error |-> ""]

\* an error response with the ErrorPayload of the error
HttpError(status, error) == [status |-> status, matches |-> <<>>, error |-> error]

NoResponse == [status |-> 0, matches |-> <<>>, error |-> ""]

\* the handler panicked before it built a response
Aborted == [status |-> 0, matches |-> <<>>, error |-> "panic"]

\* JsonError::from(BlockingError<DbError>): the error a failed blocking call
\* becomes
JsonError_from(canceled, tag) ==
    IF canceled THEN "Actix"
    ELSE IF tag = "BookNotFound" THEN "BookNotFound"
    ELSE "Db"

\* JsonError::error_response with BookNotFound answered as not found
error_response_NotFound(error) ==
    IF error \in {"Actix", "Db", "Template"} THEN HttpError(500, error)
    ELSE IF error = "BookNotFound" THEN HttpError(404, error)
    ELSE HttpError(400, error)

\* JsonError::error_response
error_response(error) ==
    IF error \in {"Actix", "Db", "Template"} THEN HttpError(500, error)
    ELSE IF error = "BookNotFound" THEN HttpOk(<<>>)
    ELSE HttpError(400, error)

\* controllers::api::search: a query that parses as a Reference is looked up
\* as one, any other is searched for; db.get().unwrap() panics inside the
\* blocking call when the pool gives no connection, which cancels the call
api_search(params_q, db_pool, db, tie) ==
    LET parsed == from_str(params_q)
        found == SwordDrill_verses(parsed, "PlainText", db)
        hits == SwordDrill_search(params_q, db, tie).result
    IN  IF parsed.tag = "Panic" THEN Aborted
        ELSE IF parsed.tag = "Ok"
        THEN IF db_pool # "ok" THEN error_response(JsonError_from(TRUE, ""))
             ELSE IF found.tag # "Ok" THEN error_response(JsonError_from(FALSE, found.tag))
             ELSE HttpOk(from_verses(found.book, found.verses))
        ELSE IF db_pool # "ok" THEN error_response(JsonError_from(TRUE, ""))
             ELSE IF hits.tag # "Ok" THEN error_response(JsonError_from(FALSE, hits.tag))
             ELSE HttpOk(from_verses_fts(hits.rows))

(***************************************************************************)
(* The reference endpoint: controllers::api::reference.                    *)
(***************************************************************************)
\* HttpResponse::Ok().json(payload) with the payload of verses
VersesOk(data) == [status |-> 200, kind |-> "verses", payload |-> data, error |-> ""]

\* the response JsonError::error_response builds, as the reference endpoint
\* sends it: an empty search result set or an error body
VersesError(r) ==
    [status |-> r.status, kind |-> IF r.status = 200 THEN "matches" ELSE "error",
     payload |-> NoPayload, error |-> r.error]

NoVerses == [status |-> 0, kind |-> "none", payload |-> NoPayload, error |-> ""]

\* JsonError::from(DbError) of controllers::api: every error of the database
\* crate, an InvalidReference of the parser too, becomes Error::Db
JsonError_from_DbError(tag) == "Db"

\* controllers::api::reference: the path is parsed, the verses are retrieved
\* in a blocking call and sent as a payload of verses; every failure goes
\* through JsonError
api_reference(path, db_pool, db) ==
    LET parsed == from_str(path)
        found == SwordDrill_verses(parsed, "PlainText", db)
    IN  IF parsed.tag = "Panic" THEN VersesError(Aborted)
        ELSE IF parsed.tag # "Ok"
        THEN VersesError(error_response(JsonError_from_DbError(parsed.tag)))
        ELSE IF db_pool # "ok" THEN VersesError(error_response(JsonError_from(TRUE, "")))
        ELSE IF found.tag # "Ok"
        THEN VersesError(error_response(JsonError_from(FALSE, found.tag)))
        ELSE VersesOk(VersesData_new(found.book, found.verses, parsed))

(***************************************************************************)
(* The citations a request may carry.                                      *)
(***************************************************************************)
Alphabet == {"a", "B", "0", "1", "2", " ", ":", ".", "-", "sup2"}

\* every string over Alphabet of at most MaxLen characters, the empty one included
ShortInputs == UNION {[1..k -> Alphabet] : k \in 0..MaxLen}

BookTokens == {<<"B", "a">>, <<"1", " ", "a">>, <<"a", " ", "B">>}

\* the separators between book and chapter and between chapter and verse
SepStyles == {<<<<" ">>, <<":">>>>, <<<<" ">>, <<".">>>>, <<<<".">>, <<".">>>>,
              <<<<>>, <<":">>>>}

Numbers == 0..MaxNum

\* the decimal numeral of n < 1000
Numeral(n) ==
    IF n < 10 THEN <<AsciiDigits[n + 1]>>
    ELSE IF n < 100 THEN <<AsciiDigits[(n \div 10) + 1], AsciiDigits[(n % 10) + 1]>>
    ELSE <<AsciiDigits[(n \div 100) + 1], AsciiDigits[((n \div 10) % 10) + 1],
           AsciiDigits[(n % 10) + 1]>>

\* the verse part of a citation: absent, a bare separator, one verse, one verse and
\* a dash, or a range
VerseParts ==
    {<<"none", 0, 0>>, <<"sep", 0, 0>>}
    \cup {<<k, a, 0>> : k \in {"single", "dash"}, a \in Numbers}
    \cup {<<"range", a, b>> : a \in Numbers, b \in Numbers}

VerseText(sep, v) ==
    CASE v[1] = "none" -> <<>>
      [] v[1] = "sep" -> sep
      [] v[1] = "single" -> sep \o Numeral(v[2])
      [] v[1] = "dash" -> sep \o Numeral(v[2]) \o <<"-">>
      [] v[1] = "range" -> sep \o Numeral(v[2]) \o <<"-">> \o Numeral(v[3])

\* <book><sep><chapter>[<sep><verse>[-<verse-end>]]
Cite(b, style, c, v) == b \o style[1] \o Numeral(c) \o VerseText(style[2], v)

StructuredInputs ==
    {Cite(b, style, c, v) : b \in BookTokens, style \in SepStyles, c \in Numbers,
                            v \in VerseParts}

\* the character c, n times
Repeat(c, n) == [k \in 1..n |-> c]

PadChars == {"a", "e_acute"}

TailAlphabet == {"a", "e_acute", "1", " "}

Tails == UNION {[1..k -> TailAlphabet] : k \in 0..MaxTail}

\* citations whose length in bytes is about MAX_REFERENCE_SIZE
PaddedInputs ==
    {Repeat(c, n) \o t :
        c \in PadChars,
        n \in ((MAX_REFERENCE_SIZE \div 2) - PadSpread)..((MAX_REFERENCE_SIZE \div 2) + PadSpread)
              \cup (MAX_REFERENCE_SIZE - PadSpread)..(MAX_REFERENCE_SIZE + PadSpread),
        t \in Tails}

\* numerals at and beyond the largest i32 (2147483647) and at 2^32
BigNumerals ==
    {<<"2", "1", "4", "7", "4", "8", "3", "6", "4", "7">>,
     <<"0", "2", "1", "4", "7", "4", "8", "3", "6", "4", "7">>,
     <<"2", "1", "4", "7", "4", "8", "3", "6", "4", "8">>,
     <<"2", "1", "4", "7", "4", "8", "3", "6", "5", "0">>,
     <<"4", "2", "9", "4", "9", "6", "7", "2", "9", "6">>,
     <<"4", "2", "9", "4", "9", "6", "7", "2", "9", "7">>,
     <<"9", "9", "9", "9", "9", "9", "9", "9", "9", "9">>,
     <<"1", "0", "0", "0", "0", "0", "0", "0", "0", "0", "0">>}

\* a citation with a numeral of BigNumerals as its chapter, its first or its
\* last verse, or after a dash that follows no first verse
OverflowInputs ==
    UNION {{<<"B", "a", " ">> \o n,
            <<"B", "a", " ">> \o n \o <<":", "1">>,
            <<"B", "a", " ", "1", ":">> \o n,
            <<"B", "a", " ", "1", ":">> \o n \o <<"-", "2">>,
            <<"B", "a", " ", "1", ":", "1", "-">> \o n,
            <<"B", "a", " ", "1", ":", "-">> \o n} : n \in BigNumerals}

\* a citation of a verse range with one more character after the chapter, the
\* first verse and the last verse
NoisyInputs ==
    {<<"B", "a", " ", "1", x, ":", "2", y, "-", "3", z>> :
        x \in {"a", " ", "-"}, y \in {"a", " ", ":", "."}, z \in {"a", "-", ":"}}

Inputs ==
    ShortInputs \cup StructuredInputs \cup PaddedInputs \cup OverflowInputs
    \cup NoisyInputs

(***************************************************************************)
(* The parse request: path.parse::<Reference>() and reference.to_string(). *)
(***************************************************************************)
NoReference == [book |-> <<>>, chapter |-> 0, verses |-> <<>>]

\* no search is asked for
SearchIdle ==
    /\ query_q = <<>>
    /\ pool = "ok"
    /\ search_pc = "idle"
    /\ search_result = SearchPending
    /\ sent = <<>>
    /\ api_pc = "idle"
    /\ response = NoResponse
    /\ ref_pc = "idle"
    /\ ref_response = NoVerses

(***************************************************************************)
(* The links of the verses page: responder::link.                          *)
(***************************************************************************)
\* BOOKS: the books by their order in the Bible with their number of
\* chapters, a dummy before the first and after the last
BOOKS ==
    <<<<"_", 0>>, <<"Genesis", 50>>, <<"Exodus", 40>>, <<"Leviticus", 27>>,
      <<"Numbers", 36>>, <<"Deuteronomy", 34>>, <<"Joshua", 24>>, <<"Judges", 21>>,
      <<"Ruth", 4>>, <<"1 Samuel", 31>>, <<"2 Samuel", 24>>, <<"1 Kings", 22>>,
      <<"2 Kings", 25>>, <<"1 Chronicles", 29>>, <<"2 Chronicles", 36>>, <<"Ezra", 10>>,
      <<"Nehemiah", 13>>, <<"Esther", 10>>, <<"Job", 42>>, <<"Psalms", 150>>,
      <<"Proverbs", 31>>, <<"Ecclesiastes", 12>>, <<"Song of Solomon", 8>>, <<"Isaiah", 66>>,
      <<"Jeremiah", 52>>, <<"Lamentations", 5>>, <<"Ezekiel", 48>>, <<"Daniel", 12>>,
      <<"Hosea", 14>>, <<"Joel", 3>>, <<"Amos", 9>>, <<"Obadiah", 1>>,
      <<"Jonah", 4>>, <<"Micah", 7>>, <<"Nahum", 3>>, <<"Habakkuk", 3>>,
      <<"Zephaniah", 3>>, <<"Haggai", 2>>, <<"Zechariah", 14>>, <<"Malachi", 4>>,
      <<"Matthew", 28>>, <<"Mark", 16>>, <<"Luke", 24>>, <<"John", 21>>,
      <<"Acts", 28>>, <<"Romans", 16>>, <<"1 Corinthians", 16>>, <<"2 Corinthians", 13>>,
      <<"Galatians", 6>>, <<"Ephesians", 6>>, <<"Philippians", 4>>, <<"Colossians", 4>>,
      <<"1 Thessalonians", 5>>, <<"2 Thessalonians", 3>>, <<"1 Timothy", 6>>, <<"2 Timothy", 4>>,
      <<"Titus", 3>>, <<"Philemon", 1>>, <<"Hebrews", 13>>, <<"James", 5>>,
      <<"1 Peter", 5>>, <<"2 Peter", 3>>, <<"1 John", 5>>, <<"2 John", 1>>,
      <<"3 John", 1>>, <<"Jude", 1>>, <<"Revelation", 22>>, <<"_", 0>>>>

\* BOOKS[i], the array indexed from 0
BOOKS_at(i) == BOOKS[i + 1]

I32_MIN == -2147483647 - 1

\* a + 1 on i32: beyond the largest i32 a debug build panics, a release build
\* wraps around
add_one(a, build) ==
    IF a < I32_MAX THEN [ok |-> TRUE, val |-> a + 1]
    ELSE IF build = "debug" THEN [ok |-> FALSE, val |-> 0]
    ELSE [ok |-> TRUE, val |-> I32_MIN]

\* chapter_url: the link to a chapter of a book
chapter_url(b, c) == [book |-> b, chapter |-> c]

NoLinks == [tag |-> "Pending", chapter |-> <<>>, previous |-> <<>>, next |-> <<>>]

LinksPanic == [tag |-> "Panic", chapter |-> <<>>, previous |-> <<>>, next |-> <<>>]

LinksOk(chapter, previous, next) ==
    [tag |-> "Ok", chapter |-> chapter, previous |-> previous, next |-> next]

\* VersesLinks::new with the first-chapter case tested before the case of a
\* book of one chapter
VersesLinks_new_FirstChapterFirst(book, c, build) ==
    LET prev == BOOKS_at(book.id - 1)
        curr == BOOKS_at(book.id)
        next == BOOKS_at(book.id + 1)
        chapter == <<chapter_url(book.name, c)>>
        up == add_one(c, build)
    IN  IF book.id = 1 /\ c = 1
        THEN LinksOk(chapter, <<>>, <<chapter_url("Genesis", 2)>>)
        ELSE IF book.id = 66 /\ c = 22
        THEN LinksOk(chapter, <<chapter_url("Revelation", 21)>>, <<>>)
        ELSE IF c = 1
        THEN IF up.ok
             THEN LinksOk(chapter, <<chapter_url(prev[1], prev[2])>>,
                          <<chapter_url(book.name, up.val)>>)
             ELSE LinksPanic
        ELSE IF curr[2] = 1
        THEN LinksOk(chapter, <<chapter_url(prev[1], prev[2])>>,
                     <<chapter_url(next[1], 1)>>)
        ELSE IF c = curr[2]
        THEN LinksOk(chapter, <<chapter_url(book.name, c - 1)>>,
                     <<chapter_url(next[1], 1)>>)
        ELSE IF up.ok
        THEN LinksOk(chapter, <<chapter_url(book.name, c - 1)>>,
                     <<chapter_url(book.name, up.val)>>)
        ELSE LinksPanic

\* VersesLinks::new: the chapter link and the previous and next links
VersesLinks_new(book, c, build) ==
    LET prev == BOOKS_at(book.id - 1)
        curr == BOOKS_at(book.id)
        next == BOOKS_at(book.id + 1)
        chapter == <<chapter_url(book.name, c)>>
        up == add_one(c, build)
    IN  IF book.id = 1 /\ c = 1
        THEN LinksOk(chapter, <<>>, <<chapter_url("Genesis", 2)>>)
        ELSE IF book.id = 66 /\ c = 22
        THEN LinksOk(chapter, <<chapter_url("Revelation", 21)>>, <<>>)
        ELSE IF curr[2] = 1
        THEN LinksOk(chapter, <<chapter_url(prev[1], prev[2])>>,
                     <<chapter_url(next[1], 1)>>)
        ELSE IF c = 1
        THEN IF up.ok
             THEN LinksOk(chapter, <<chapter_url(prev[1], prev[2])>>,
                          <<chapter_url(book.name, up.val)>>)
             ELSE LinksPanic
        ELSE IF c = curr[2]
        THEN LinksOk(chapter, <<chapter_url(book.name, c - 1)>>,
                     <<chapter_url(next[1], 1)>>)
        ELSE IF up.ok
        THEN LinksOk(chapter, <<chapter_url(book.name, c - 1)>>,
                     <<chapter_url(book.name, up.val)>>)
        ELSE LinksPanic

\* the rows of the books table: the 66 books of BOOKS
BibleBooks ==
    {[id |-> i, name |-> BOOKS_at(i)[1], chapter_count |-> BOOKS_at(i)[2]] : i \in 1..66}

\* no links are asked for
LinkIdle ==
    /\ link_book = [id |-> 0, name |-> "_", chapter_count |-> 0]
    /\ link_chapter = 0
    /\ link_pc = "idle"
    /\ links = NoLinks

(***************************************************************************)
(* The connection pool and the blocking closures of the JSON handlers.     *)
(***************************************************************************)
\* build_pool: r2d2::Pool::builder().max_size(15)
MAX_SIZE == 15

\* how many requests are in the server at once
MaxRequests == 3

Requests == 1..MaxRequests

\* the pool's count of checked-out connections after a PooledConnection is
\* never given back
PooledConnection_drop_Leak(n) == n

\* the pool's count of checked-out connections after a PooledConnection is
\* dropped
PooledConnection_drop(n) == n - 1

\* no request is in the server
PoolIdle ==
    /\ req_kind = <<>>
    /\ req_pc = <<>>
    /\ held = <<>>
    /\ checked_out = 0

\* from_str is not stepped through
ScanIdle ==
    /\ scan_pc = "idle"
    /\ scan_p = Locals0
    /\ scan_i = 0
    /\ scan_result = Pending

RestIdle == ScanIdle /\ LinkIdle /\ PoolIdle

\* no retrieval is asked for
DrillRest ==
    /\ reference = NoReference
    /\ format = "PlainText"
    /\ drill_pc = "idle"
    /\ drill_result = DrillPending
    /\ payload = NoPayload
    /\ asked_book = <<>>
    /\ book_pc = "idle"
    /\ book_result = DrillPending

DrillIdle ==
    /\ reference = NoReference
    /\ format = "PlainText"
    /\ conn = "up"
    /\ drill_pc = "idle"
    /\ drill_result = DrillPending
    /\ payload = NoPayload
    /\ asked_book = <<>>
    /\ book_pc = "idle"
    /\ book_result = DrillPending

Init ==
    /\ s \in Inputs
    /\ pc = "call"
    /\ result = Pending
    /\ shown = <<>>
    /\ DrillIdle
    /\ SearchIdle
    /\ RestIdle

\* raw.parse::<Reference>()
Parse ==
    /\ pc = "call"
    /\ result' = from_str(s)
    /\ pc' = "returned"
    /\ UNCHANGED <<s, shown>>
    /\ UNCHANGED drill_vars
    /\ UNCHANGED search_vars
    /\ UNCHANGED rest_vars

\* reference.to_string() on the parsed Reference
to_string ==
    /\ pc = "returned"
    /\ result.tag = "Ok"
    /\ shown' = fmt(result)
    /\ pc' = "shown"
    /\ UNCHANGED <<s, result>>
    /\ UNCHANGED drill_vars
    /\ UNCHANGED search_vars
    /\ UNCHANGED rest_vars

Next == Parse \/ to_string

Spec == Init /\ [][Next]_vars

(***************************************************************************)
(* The retrieval request: SwordDrill::verses(&reference, format, conn).    *)
(***************************************************************************)
\* book tokens of a Reference: names and abbreviations in either case, and one
\* that is no abbreviation
BookRequests ==
    {<<"B", "a">>, <<"b", "A">>, <<"B">>, <<"1", " ", "A">>, <<"1", "a">>, <<"a">>,
     <<"A", "b">>}

References ==
    [book : BookRequests, chapter : 0..MaxChapter,
     verses : {<<>>} \cup ((0..MaxVerse) \X (0..MaxVerse))]

ParseIdle ==
    /\ s = <<>>
    /\ pc = "idle"
    /\ result = Pending
    /\ shown = <<>>

DrillInit ==
    /\ reference \in References
    /\ format \in {"PlainText", "Html"}
    /\ conn \in {"up"} \cup StorageFailures
    /\ drill_pc = "call"
    /\ drill_result = DrillPending
    /\ payload = NoPayload
    /\ asked_book \in BookRequests
    /\ book_pc = "call"
    /\ book_result = DrillPending
    /\ ParseIdle
    /\ SearchIdle
    /\ RestIdle

\* SwordDrill::verses(&reference, format, conn)
Verses ==
    /\ drill_pc = "call"
    /\ drill_result' = SwordDrill_verses(reference, format, conn)
    /\ drill_pc' = "returned"
    /\ UNCHANGED <<reference, format, conn, payload, asked_book, book_pc, book_result>>
    /\ UNCHANGED parse_vars
    /\ UNCHANGED search_vars
    /\ UNCHANGED rest_vars

\* VersesData::new(result, reference, req) on the verses that were retrieved
BuildVersesData ==
    /\ drill_pc = "returned"
    /\ drill_result.tag = "Ok"
    /\ payload' = VersesData_new(drill_result.book, drill_result.verses, reference)
    /\ drill_pc' = "built"
    /\ UNCHANGED <<reference, format, conn, drill_result, asked_book, book_pc, book_result>>
    /\ UNCHANGED parse_vars
    /\ UNCHANGED search_vars
    /\ UNCHANGED rest_vars

\* SwordDrill::book(book_name, conn)
Book ==
    /\ book_pc = "call"
    /\ book_result' = SwordDrill_book(asked_book, conn)
    /\ book_pc' = "returned"
    /\ UNCHANGED <<reference, format, conn, drill_pc, drill_result, payload, asked_book>>
    /\ UNCHANGED parse_vars
    /\ UNCHANGED search_vars
    /\ UNCHANGED rest_vars

DrillNext == Verses \/ BuildVersesData \/ Book

DrillSpec == DrillInit /\ [][DrillNext]_vars

(***************************************************************************)
(* The search request: SwordDrill::search(&query.q, conn) and the    *)
(* endpoint GET /api/search?q=...                                          *)
(***************************************************************************)
\* longest query drawn exhaustively over QueryAlphabet
MaxQuery == 3

QueryAlphabet == {"a", "B", " ", "1", ":", "quote", "*", "e_acute"}

ShortQueries == UNION {[1..k -> QueryAlphabet] : k \in 0..MaxQuery}

QueryWords == {<<"a">>, <<"b">>, <<"B", "a">>, <<"a", "b">>}

\* two and three words, and two words as a phrase
WordQueries ==
    {w[1] \o <<" ">> \o w[2] : w \in QueryWords \X QueryWords}
    \cup {w[1] \o <<" ">> \o w[2] \o <<" ">> \o w[3] :
             w \in QueryWords \X QueryWords \X QueryWords}
    \cup {<<"quote">> \o w[1] \o <<" ">> \o w[2] \o <<"quote">> :
             w \in QueryWords \X QueryWords}

Queries == ShortQueries \cup WordQueries

SearchInit ==
    /\ query_q \in Queries
    /\ pool \in {"ok", "timed_out"}
    /\ conn \in {"up"} \cup StorageFailures
    /\ search_pc = "call"
    /\ search_result = SearchPending
    /\ sent = <<>>
    /\ api_pc = "call"
    /\ response = NoResponse
    /\ ref_pc = "call"
    /\ ref_response = NoVerses
    /\ DrillRest
    /\ ParseIdle
    /\ RestIdle

\* SwordDrill::search(&query.q, conn)
Search ==
    /\ search_pc = "call"
    /\ \E tie \in {"asc", "desc"} :
           LET returned == SwordDrill_search(query_q, conn, tie)
           IN  search_result' = returned.result /\ sent' = returned.sent
    /\ search_pc' = "returned"
    /\ UNCHANGED <<query_q, pool, api_pc, response, ref_pc, ref_response>>
    /\ UNCHANGED parse_vars
    /\ UNCHANGED drill_vars
    /\ UNCHANGED rest_vars

\* GET /api/search?q=...
ApiSearch ==
    /\ api_pc = "call"
    /\ \E tie \in {"asc", "desc"} : response' = api_search(query_q, pool, conn, tie)
    /\ api_pc' = "responded"
    /\ UNCHANGED <<query_q, pool, search_pc, search_result, sent, ref_pc, ref_response>>
    /\ UNCHANGED parse_vars
    /\ UNCHANGED drill_vars
    /\ UNCHANGED rest_vars

\* GET /api/{reference}
ApiReference ==
    /\ ref_pc = "call"
    /\ ref_response' = api_reference(query_q, pool, conn)
    /\ ref_pc' = "responded"
    /\ UNCHANGED <<query_q, pool, search_pc, search_result, sent, api_pc, response>>
    /\ UNCHANGED parse_vars
    /\ UNCHANGED drill_vars
    /\ UNCHANGED rest_vars

SearchNext == Search \/ ApiSearch \/ ApiReference

SearchSpec == SearchInit /\ [][SearchNext]_vars

(***************************************************************************)
(* Reference::from_str step by step: the length check, one iteration of    *)
(* the loop per character, the construction of the result.                 *)
(***************************************************************************)
\* longest citation drawn exhaustively over Alphabet for the stepped parse
MaxScan == 3

\* short citations, those with ignored characters or long numerals, and the
\* padded ones that end in at most one other character
ScanInputs ==
    UNION {[1..k -> Alphabet] : k \in 0..MaxScan}
    \cup NoisyInputs \cup OverflowInputs
    \cup {x \in PaddedInputs : x[Len(x) - 1] = x[1]}

ScanInit ==
    /\ s \in ScanInputs
    /\ pc = "idle"
    /\ result = Pending
    /\ shown = <<>>
    /\ scan_pc = "check"
    /\ scan_p = Locals0
    /\ scan_i = 0
    /\ scan_result = Pending
    /\ DrillIdle
    /\ SearchIdle
    /\ LinkIdle
    /\ PoolIdle

\* if s.len() > MAX_REFERENCE_SIZE || s.is_empty() { return Err(..) }
CheckLength ==
    /\ scan_pc = "check"
    /\ IF len(s) > MAX_REFERENCE_SIZE \/ s = <<>>
       THEN scan_result' = LengthCheck(s) /\ scan_pc' = "done"
       ELSE scan_result' = scan_result /\ scan_pc' = "loop"
    /\ UNCHANGED <<scan_p, scan_i>>
    /\ UNCHANGED <<link_vars, pool_vars>>
    /\ UNCHANGED parse_vars
    /\ UNCHANGED drill_vars
    /\ UNCHANGED search_vars

\* one iteration of for c in s.chars()
Step ==
    /\ scan_pc = "loop"
    /\ scan_i < Len(s)
    /\ scan_p' = Consume(scan_p, s[scan_i + 1])
    /\ scan_i' = scan_i + 1
    /\ UNCHANGED <<scan_pc, scan_result>>
    /\ UNCHANGED <<link_vars, pool_vars>>
    /\ UNCHANGED parse_vars
    /\ UNCHANGED drill_vars
    /\ UNCHANGED search_vars

\* the iterator is exhausted: the result is built from the buffers
Construct ==
    /\ scan_pc = "loop"
    /\ scan_i = Len(s)
    /\ scan_result' = Finish(s, scan_p)
    /\ scan_pc' = "done"
    /\ UNCHANGED <<scan_p, scan_i>>
    /\ UNCHANGED <<link_vars, pool_vars>>
    /\ UNCHANGED parse_vars
    /\ UNCHANGED drill_vars
    /\ UNCHANGED search_vars

ScanNext == CheckLength \/ Step \/ Construct

ScanSpec == ScanInit /\ [][ScanNext]_vars

\* the call runs on: a thread inside from_str takes its next step
ScanLive == ScanSpec /\ WF_vars(ScanNext)

(***************************************************************************)
(* VersesLinks::new for a book of the books table and a chapter number.    *)
(***************************************************************************)
\* how far beyond the last chapter of a book a requested chapter may lie
LinkSpread == 2

\* the chapters a Reference can carry for a book: from_str accepts every
\* number from 0 to the largest i32, and SwordDrill::verses returns Ok with no
\* verses for a chapter the book does not have
LinkChapters(book) == 0..(book.chapter_count + LinkSpread) \cup {I32_MAX - 1, I32_MAX}

LinkInit ==
    /\ link_book \in BibleBooks
    /\ link_chapter \in LinkChapters(link_book)
    /\ link_pc = "call"
    /\ links = NoLinks
    /\ ParseIdle
    /\ DrillIdle
    /\ SearchIdle
    /\ ScanIdle
    /\ PoolIdle

\* VersesLinks::new(&book, &reference, &req)
BuildLinks ==
    /\ link_pc = "call"
    /\ \E build \in {"debug", "release"} :
           links' = VersesLinks_new(link_book, link_chapter, build)
    /\ link_pc' = "built"
    /\ UNCHANGED <<link_book, link_chapter>>
    /\ UNCHANGED <<scan_vars, pool_vars>>
    /\ UNCHANGED parse_vars
    /\ UNCHANGED drill_vars
    /\ UNCHANGED search_vars

LinkNext == BuildLinks

LinkSpec == LinkInit /\ [][LinkNext]_vars

(***************************************************************************)
(* Concurrent requests to the JSON endpoints: each handler hands one      *)
(* closure to web::block, the closure takes a connection from the pool for *)
(* its one engine call.                                                    *)
(***************************************************************************)
PoolInit ==
    /\ req_kind \in [Requests -> {"reference", "search_reference", "search_words"}]
    /\ req_pc = [r \in Requests |-> "new"]
    /\ held = [r \in Requests |-> 0]
    /\ checked_out = 0
    /\ ParseIdle
    /\ DrillIdle
    /\ SearchIdle
    /\ ScanIdle
    /\ LinkIdle

PoolRest ==
    /\ UNCHANGED <<scan_vars, link_vars>>
    /\ UNCHANGED parse_vars
    /\ UNCHANGED drill_vars
    /\ UNCHANGED search_vars

\* the handler runs: the path or query is parsed; the reference endpoint
\* answers a parse error at once, every other case queues its closure
Handle(r) ==
    /\ req_pc[r] = "new"
    /\ \/ req_pc' = [req_pc EXCEPT ![r] = "queued"]
       \/ /\ req_kind[r] = "reference"
          /\ req_pc' = [req_pc EXCEPT ![r] = "responded"]
    /\ UNCHANGED <<req_kind, held, checked_out>>
    /\ PoolRest

\* db.get().unwrap() in the closure: a connection is checked out and the
\* engine call starts, or get() gives an error and unwrap panics
Get(r) ==
    /\ req_pc[r] = "queued"
    /\ \/ /\ checked_out < MAX_SIZE
          /\ checked_out' = checked_out + 1
          /\ held' = [held EXCEPT ![r] = @ + 1]
          /\ req_pc' = [req_pc EXCEPT ![r] =
                            IF req_kind[r] = "search_words" THEN "query" ELSE "book"]
       \/ /\ req_pc' = [req_pc EXCEPT ![r] = "canceled"]
          /\ UNCHANGED <<held, checked_out>>
    /\ UNCHANGED req_kind
    /\ PoolRest

\* Self::book inside SwordDrill::verses returned a book: verses goes on to
\* its own query with the same connection
BookFound(r) ==
    /\ req_pc[r] = "book"
    /\ req_pc' = [req_pc EXCEPT ![r] = "query"]
    /\ UNCHANGED <<req_kind, held, checked_out>>
    /\ PoolRest

\* the engine call returns (from its query, or from Self::book with an
\* error) and the closure ends: the PooledConnection is dropped
Return(r) ==
    /\ req_pc[r] \in {"book", "query"}
    /\ checked_out' = PooledConnection_drop(checked_out)
    /\ held' = [held EXCEPT ![r] = @ - 1]
    /\ req_pc' = [req_pc EXCEPT ![r] = "returned"]
    /\ UNCHANGED req_kind
    /\ PoolRest

\* map_err / and_then on the result of web::block: the response is built
Respond(r) ==
    /\ req_pc[r] \in {"returned", "canceled"}
    /\ req_pc' = [req_pc EXCEPT ![r] = "responded"]
    /\ UNCHANGED <<req_kind, held, checked_out>>
    /\ PoolRest

PoolNext ==
    \E r \in Requests : Handle(r) \/ Get(r) \/ BookFound(r) \/ Return(r) \/ Respond(r)

PoolSpec == PoolInit /\ [][PoolNext]_vars

(***************************************************************************)
(* Helpers of the properties.                                              *)
(***************************************************************************)
Returned == pc \in {"returned", "shown"}

Parsed == Returned /\ result.tag = "Ok"

RECURSIVE DecimalValue(_)
\* the number a string of decimal digits denotes
DecimalValue(buf) ==
    IF buf = <<>> THEN 0
    ELSE DecimalValue(SubSeq(buf, 1, Len(buf) - 1)) * 10 + DigitValue(buf[Len(buf)])

RECURSIVE Decimal(_)
\* the decimal numeral of a natural number
Decimal(n) ==
    IF n < 10 THEN <<AsciiDigits[n + 1]>>
    ELSE Append(Decimal(n \div 10), AsciiDigits[(n % 10) + 1])

\* the first position of ch in x, 0 when there is none
IndexOf(x, ch) ==
    IF \E i \in 1..Len(x) : x[i] = ch
    THEN CHOOSE i \in 1..Len(x) : x[i] = ch /\ \A j \in 1..(i - 1) : x[j] # ch
    ELSE 0

\* the last position of ch in x, 0 when there is none
LastIndexOf(x, ch) ==
    IF \E i \in 1..Len(x) : x[i] = ch
    THEN CHOOSE i \in 1..Len(x) : x[i] = ch /\ \A j \in (i + 1)..Len(x) : x[j] # ch
    ELSE 0

\* a decimal numeral as Display writes it: digits only, no leading zero
IsNumeral(x) ==
    /\ x # <<>>
    /\ Len(x) <= 9
    /\ \A k \in 1..Len(x) : IsAsciiDigit(x[k])
    /\ Len(x) > 1 => x[1] # "0"

\* a book name: letters and single spaces, optionally prefixed by one numeral,
\* ending in a letter
IsBookName(b) ==
    /\ b # <<>>
    /\ IsAsciiDigit(b[1]) \/ is_alphabetic(b[1])
    /\ is_alphabetic(b[Len(b)])
    /\ \A k \in 2..Len(b) : is_alphabetic(b[k]) \/ b[k] = " "
    /\ \A k \in 2..Len(b) : ~(b[k - 1] = " " /\ b[k] = " ")

NotCanonical == [ok |-> FALSE, book |-> <<>>, chapter |-> <<>>, from |-> <<>>, to |-> <<>>]

\* the parts of a chapter-and-verses text "c", "c:v" or "c:a-b" (a < b)
CanonRest(book, rest) ==
    LET colon == IndexOf(rest, ":")
        chapter == IF colon = 0 THEN rest ELSE SubSeq(rest, 1, colon - 1)
        vs == IF colon = 0 THEN <<>> ELSE SubSeq(rest, colon + 1, Len(rest))
        dash == IndexOf(vs, "-")
        from == IF dash = 0 THEN vs ELSE SubSeq(vs, 1, dash - 1)
        to == IF dash = 0 THEN vs ELSE SubSeq(vs, dash + 1, Len(vs))
    IN  IF /\ IsNumeral(chapter)
           /\ colon # 0 => IsNumeral(from) /\ IsNumeral(to)
           /\ dash # 0 => DecimalValue(from) < DecimalValue(to)
        THEN [ok |-> TRUE, book |-> book, chapter |-> chapter, from |-> from, to |-> to]
        ELSE NotCanonical

\* the parts of str when it is in canonical rendering: "{book} {chapter}",
\* "{book} {chapter}:{verse}" or "{book} {chapter}:{start}-{end}" with start < end
CanonParts(str) ==
    LET sp == LastIndexOf(str, " ")
    IN  IF sp > 1 /\ IsBookName(SubSeq(str, 1, sp - 1))
        THEN CanonRest(SubSeq(str, 1, sp - 1), SubSeq(str, sp + 1, Len(str)))
        ELSE NotCanonical

RECURSIVE MatchedBetween(_, _, _, _, _)
\* how many characters of a are matched, in order, after walking b[lo..hi] with k
\* of them matched before
MatchedBetween(k, a, b, lo, hi) ==
    IF lo > hi THEN k
    ELSE IF lo = hi THEN (IF k < Len(a) /\ a[k + 1] = b[lo] THEN k + 1 ELSE k)
    ELSE LET q == MatchedBetween(k, a, b, lo, (lo + hi) \div 2)
         IN  IF q >= k THEN MatchedBetween(q, a, b, ((lo + hi) \div 2) + 1, hi) ELSE q

\* a is b with some characters left out, the others kept as they are
IsSubsequence(a, b) == MatchedBetween(0, a, b, 1, Len(b)) = Len(a)

(***************************************************************************)
(* Properties of Reference::from_str and Display.                          *)
(***************************************************************************)
\* C1: for every accepted input, verses is None when no verse-from digit was
\* read, Some(from..=from) when verse-from digits were read and no verse-to
\* digit, and Some(from..=to) when both were read.
C1_VersesFromBuffers ==
    Parsed =>
        LET p == Scan(s)
        IN  result.verses =
                IF p.verse_from_part = <<>> THEN <<>>
                ELSE IF p.verse_to_part = <<>>
                THEN <<DecimalValue(p.verse_from_part), DecimalValue(p.verse_from_part)>>
                ELSE <<DecimalValue(p.verse_from_part), DecimalValue(p.verse_to_part)>>

\* an accepted citation that ends in a dash after its verse ("John 3:16-"): one verse
C1_Witness ==
    /\ Parsed
    /\ s[Len(s)] = "-"
    /\ Scan(s).state = "VerseTo"
    /\ Scan(s).verse_from_part # <<>>
    /\ result.verses # <<>>
    /\ result.verses[1] = result.verses[2]

\* C2: range integrity: every successful parse with verses = Some(a..=b) has a <= b.
C2_RangeIntegrity ==
    (Parsed /\ result.verses # <<>>) => result.verses[1] <= result.verses[2]

\* C3: parsing the empty string returns InvalidReference; it does not abort.
C3_EmptyIsInvalidReference ==
    (Returned /\ s = <<>>) => result.tag = "InvalidReference"

\* C4: every citation of more than 100 characters, ASCII or multi-byte, makes
\* from_str return InvalidReference.
C4_TooLongIsInvalidReference ==
    (Returned /\ Len(s) > MAX_REFERENCE_SIZE) => result.tag = "InvalidReference"

\* C5: the chapter is mandatory: every input of 1..100 characters with no digit
\* after its first character fails with InvalidReference, and every successful
\* parse read its chapter from at least one digit.
C5_ChapterMandatory ==
    (Returned /\ Len(s) \in 1..MAX_REFERENCE_SIZE) =>
        /\ (\A k \in 2..Len(s) : ~is_numeric(s[k])) => result.tag = "InvalidReference"
        /\ result.tag = "Ok" => Scan(s).chapter_part # <<>>

\* C6: every successful parse has chapter >= 1 and, when verses is present, a
\* start and an end >= 1.
C6_PositiveNumbers ==
    Parsed =>
        /\ result.chapter >= 1
        /\ result.verses # <<>> => result.verses[1] >= 1 /\ result.verses[2] >= 1

\* C7: every successful parse has a book that is non-empty, has no leading or
\* trailing whitespace and keeps the characters as typed.
C7_BookInvariant ==
    Parsed =>
        /\ result.book # <<>>
        /\ ~is_whitespace(result.book[1])
        /\ ~is_whitespace(result.book[Len(result.book)])
        /\ IsSubsequence(result.book, s)

\* C8: round trip: a citation in canonical rendering is parsed (when the length
\* check lets it through) and the parsed Reference formats back to it exactly;
\* Display writes the single-verse form exactly when verses.start = verses.end.
C8_RoundTrip ==
    /\ (Returned /\ CanonParts(s).ok /\ len(s) <= MAX_REFERENCE_SIZE) => result.tag = "Ok"
    /\ (pc = "shown" /\ CanonParts(s).ok) => shown = s
    /\ (pc = "shown" /\ result.verses # <<>>) =>
           LET single == result.book \o <<" ">> \o Decimal(result.chapter) \o <<":">>
                         \o Decimal(result.verses[1])
           IN  (shown = single) <=> (result.verses[1] = result.verses[2])

\* a canonical range citation with a numeral-prefixed book, formatted back
C8_Witness ==
    /\ pc = "shown"
    /\ CanonParts(s).ok
    /\ IsAsciiDigit(s[1])
    /\ result.verses # <<>>
    /\ result.verses[1] < result.verses[2]
    /\ result.chapter >= 10
    /\ shown = s

\* C9: separator equivalence: "b c:v", "b c.v", "b.c.v" and "bc:v" all parse to
\* chapter c and verses v..=v, and none keeps a '.' in the book.
C9_SeparatorEquivalence ==
    LET c == CanonParts(s)
    IN  (Parsed /\ c.ok /\ c.from # <<>> /\ c.from = c.to) =>
            \A style \in SepStyles :
                LET r == from_str(c.book \o style[1] \o c.chapter \o style[2] \o c.from)
                IN  /\ r.tag = "Ok"
                    /\ r.chapter = DecimalValue(c.chapter)
                    /\ r.verses = <<DecimalValue(c.from), DecimalValue(c.from)>>
                    /\ r.book = c.book
                    /\ r.chapter = result.chapter
                    /\ r.verses = result.verses

\* a parsed single-verse citation with a numeral-prefixed book ("1 a 10:12")
C9_Witness ==
    /\ Parsed
    /\ CanonParts(s).ok
    /\ CanonParts(s).from # <<>>
    /\ CanonParts(s).from = CanonParts(s).to
    /\ IsAsciiDigit(s[1])
    /\ result.chapter >= 10
    /\ result.verses = <<12, 12>>

(***************************************************************************)
(* Properties of SwordDrill::verses.                                       *)
(***************************************************************************)
\* the book an abbreviation table lookup of the token resolves to, NoBook if none
ResolvedBook(token) ==
    LET ids == {ba.book_id : ba \in {x \in BookAbbreviations :
                                        x.abbreviation = to_lowercase(token)}}
    IN  IF ids = {} THEN NoBook ELSE CHOOSE b \in Books : b.id \in ids

\* the stored verses of the selected table that a reference asks for
Wanted ==
    {v \in (IF format = "Html" THEN VerseRows("html") ELSE VerseRows("plain")) :
        /\ v.book = ResolvedBook(reference.book).id
        /\ v.chapter = reference.chapter
        /\ reference.verses # <<>> =>
               v.verse \in reference.verses[1]..reference.verses[2]}

\* C10: for a reference whose book resolves, verses returns exactly the stored
\* verses of the selected table with the resolved book id, the chapter of the
\* reference and a verse number within a..=b when verses is present, in
\* ascending verse order; when none matches the result is Ok and empty.
C10_VersesExactlyMatching ==
    (drill_pc = "returned" /\ ResolvedBook(reference.book) # NoBook /\ conn = "up") =>
        /\ drill_result.tag = "Ok"
        /\ drill_result.book = ResolvedBook(reference.book)
        /\ {drill_result.verses[i] : i \in 1..Len(drill_result.verses)} = Wanted
        /\ Len(drill_result.verses) = Cardinality(Wanted)
        /\ \A i \in 1..Len(drill_result.verses), j \in 1..Len(drill_result.verses) :
               i < j => drill_result.verses[i].verse < drill_result.verses[j].verse

\* a range that takes two of the three stored verses of a chapter, from the HTML table
C10_Witness ==
    /\ drill_pc = "returned"
    /\ drill_result.tag = "Ok"
    /\ format = "Html"
    /\ reference.verses = <<2, 3>>
    /\ Len(drill_result.verses) = 2
    /\ drill_result.verses[1].verse = 2
    /\ drill_result.verses[2].verse = 3
    /\ drill_result.verses[1].words = "html"

(***************************************************************************)
(* Properties of VersesData::new.                                          *)
(***************************************************************************)
\* the number of verses stored for the chapter a reference names
ChapterSize ==
    LET sizes == {ch[3] : ch \in {x \in Chapters :
                                      /\ x[1] = ResolvedBook(reference.book).id
                                      /\ x[2] = reference.chapter}}
    IN  IF sizes = {} THEN 0 ELSE CHOOSE n \in sizes : TRUE

Min(a, b) == IF a <= b THEN a ELSE b

\* C11: when a reference with verses a..b was asked for and a non-empty
\* sequence was retrieved, the reference of the VersesData runs from the
\* requested start a to the verse number of the last retrieved verse (the
\* size of the chapter when b lies beyond it), and its book is the name of
\* the resolved book.
C11_NarrowedToLastReturned ==
    (drill_pc = "built" /\ reference.verses # <<>> /\ drill_result.verses # <<>>) =>
        /\ payload.reference.verses =
               <<reference.verses[1], drill_result.verses[Len(drill_result.verses)].verse>>
        /\ payload.reference.verses[2] = Min(reference.verses[2], ChapterSize)
        /\ payload.reference.book = ResolvedBook(reference.book).name
        /\ payload.verses = drill_result.verses

\* verses 1-4 asked of a chapter of three under an abbreviation: the payload
\* says 1-3 of the book by its name
C11_Witness ==
    /\ drill_pc = "built"
    /\ reference.book = <<"B">>
    /\ reference.chapter = 1
    /\ reference.verses = <<1, 4>>
    /\ Len(drill_result.verses) = 3
    /\ payload.reference.verses = <<1, 3>>
    /\ payload.reference.book = <<"B", "a">>
    /\ payload.reference_string = <<"B", "a", " ", "1", ":", "1", "-", "3">>

\* C12: whenever the reference of the VersesData has verses, its start and
\* its end are the verse numbers of the first and the last retrieved verse.
C12_NarrowedSpansReturned ==
    (drill_pc = "built" /\ payload.reference.verses # <<>>) =>
        /\ drill_result.verses # <<>>
        /\ payload.reference.verses[1] = drill_result.verses[1].verse
        /\ payload.reference.verses[2] = drill_result.verses[Len(drill_result.verses)].verse

(***************************************************************************)
(* Properties of SwordDrill::book.                                         *)
(***************************************************************************)
\* what a caller of SwordDrill::book can tell apart besides the echoed token
Outcome(r) == <<r.tag, r.book, r.chapters>>

\* C13: tokens that are equal after lowercasing get the same outcome from
\* SwordDrill::book (the same Book, or BookNotFound for all of them), the
\* Book being the one with the lowercased token among its abbreviations, and
\* on success the second component is the list 1..=chapter_count of the Book.
C13_CaseInsensitive ==
    book_pc = "returned" =>
        /\ \A t \in BookRequests \cup {to_lowercase(asked_book)} :
               to_lowercase(t) = to_lowercase(asked_book) =>
                   Outcome(SwordDrill_book(t, conn)) = Outcome(book_result)
        /\ conn = "up" =>
               /\ book_result.tag = "Ok" <=> ResolvedBook(asked_book) # NoBook
               /\ book_result.tag # "Ok" => book_result.tag = "BookNotFound"
               /\ book_result.book = ResolvedBook(asked_book)
        /\ book_result.tag = "Ok" =>
               /\ Len(book_result.chapters) = book_result.book.chapter_count
               /\ \A k \in 1..Len(book_result.chapters) : book_result.chapters[k] = k

\* the name of a book in the opposite case of every letter resolves to it
C13_Witness ==
    /\ book_pc = "returned"
    /\ asked_book = <<"b", "A">>
    /\ book_result.tag = "Ok"
    /\ book_result.book.name = <<"B", "a">>
    /\ book_result.chapters = <<1, 2>>

\* C14: a token that matches no abbreviation gives BookNotFound carrying the
\* token exactly as it was supplied, from SwordDrill::book called directly and
\* from SwordDrill::verses resolving reference.book.
C14_BookNotFoundAsTyped ==
    /\ (book_pc = "returned" /\ conn = "up" /\ ResolvedBook(asked_book) = NoBook) =>
           (book_result.tag = "BookNotFound" /\ book_result.not_found = asked_book)
    /\ (drill_pc = "returned" /\ conn = "up" /\ ResolvedBook(reference.book) = NoBook) =>
           (drill_result.tag = "BookNotFound" /\ drill_result.not_found = reference.book)

(***************************************************************************)
(* Properties of SwordDrill::search.                                       *)
(***************************************************************************)
\* the letters and spaces of the query, in their order
Cleaned == SelectSeq(query_q, IsAlphaOrSpace)

\* the query has no ASCII letter
Blank == \A k \in 1..Len(query_q) : ~IsAsciiLetter(query_q[k])

\* SwordDrill::search returned after it sent an expression to storage
Asked == search_pc = "returned" /\ sent # <<>>

\* C15: when the query contains a double quote the expression sent to storage
\* is exactly the cleaned text within one pair of quotes, without a wildcard;
\* the wildcard is appended only when the query had no quote.
C15_PhraseWithoutWildcard ==
    Asked =>
        IF had_quote(query_q)
        THEN sent[1] = <<"quote">> \o Cleaned \o <<"quote">>
        ELSE sent[1] = Cleaned \o <<"*">>

\* position k of the expression ends a word
EndsWord(e, k) == IsAsciiLetter(e[k]) /\ (k = Len(e) \/ ~IsAsciiLetter(e[k + 1]))

\* C16: when the query contains no double quote, every word of the expression
\* sent to storage carries the wildcard, not only the last one.
C16_EveryWordIsAPrefix ==
    (Asked /\ ~had_quote(query_q)) =>
        \A k \in 1..Len(sent[1]) :
            EndsWord(sent[1], k) => (k < Len(sent[1]) /\ sent[1][k + 1] = "*")

\* C17: the characters of the query that reach the expression are its ASCII
\* letters and spaces, in their order; besides them the expression has only
\* the wildcard at its end and, around the text, the one pair of quotes that
\* search adds.
C17_OnlyLettersAndSpacesReach ==
    Asked =>
        LET e == sent[1]
            body == IF e[1] = "quote" THEN SubSeq(e, 2, Len(e) - 2)
                    ELSE SubSeq(e, 1, Len(e) - 1)
        IN  /\ e[Len(e)] = "*"
            /\ e[1] = "quote" => (Len(e) >= 3 /\ e[Len(e) - 1] = "quote")
            /\ \A k \in 1..Len(body) : IsAsciiLetter(body[k]) \/ body[k] = " "
            /\ body = Cleaned

\* a query with a wildcard, a digit, a colon and a non-ASCII letter of its own
C17_Witness ==
    /\ Asked
    /\ \E i, j, k \in 1..Len(query_q) :
           query_q[i] = "*" /\ query_q[j] \in {"1", ":"} /\ query_q[k] = "a"
    /\ \E w \in {<<"a">>, <<"a", "a">>} : sent[1] = w \o <<"*">>

\* C18: a query whose sanitized text is empty or blank returns Ok with no
\* results and sends nothing to storage, whatever the state of the storage.
C18_BlankIsEmptyOk ==
    (search_pc = "returned" /\ Blank) =>
        /\ search_result.tag = "Ok"
        /\ search_result.rows = <<>>
        /\ sent = <<>>

\* the query "1 " against a failing storage
C18_Witness ==
    /\ search_pc = "returned"
    /\ query_q = <<"1", " ">>
    /\ conn = "locked"
    /\ search_result = [tag |-> "Ok", rows |-> <<>>, cause |-> ""]
    /\ sent = <<>>

\* the stored rows the expression matches, as search loads them
Candidates(e) ==
    {[verse |-> [book |-> v.book, chapter |-> v.chapter, verse |-> v.verse,
                 words |-> "highlighted", rank |-> v.rank],
      book |-> CHOOSE b \in Books : b.id = v.book] :
        v \in {x \in VersesFts : Matches(e, x.text)}}

\* C19: search returns at most 15 results, each a stored match, in ascending
\* rank order, as many as there are matches up to 15, and no match left out
\* has a lower rank than a returned one.
C19_BestRankedAtMostLimit ==
    (Asked /\ search_result.tag = "Ok") =>
        LET rows == search_result.rows
            got == {rows[k] : k \in 1..Len(rows)}
        IN  /\ Len(rows) <= 15
            /\ got \subseteq Candidates(sent[1])
            /\ Cardinality(got) = Len(rows)
            /\ Len(rows) = Min(15, Cardinality(Candidates(sent[1])))
            /\ \A i \in 1..Len(rows), j \in 1..Len(rows) :
                   i < j => rows[i].verse.rank <= rows[j].verse.rank
            /\ \A m \in Candidates(sent[1]) \ got :
                   \A r \in got : r.verse.rank <= m.verse.rank

\* more than 15 verses match and 15 come back
C19_Witness ==
    /\ Asked
    /\ search_result.tag = "Ok"
    /\ Cardinality(Candidates(sent[1])) > 15
    /\ Len(search_result.rows) = 15
    /\ \E k \in 1..14 : search_result.rows[k].verse.rank < search_result.rows[k + 1].verse.rank

(***************************************************************************)
(* Properties of the search endpoint.                                      *)
(***************************************************************************)
\* the endpoint answered a query that parses as a Reference
AnsweredReference == api_pc = "responded" /\ from_str(query_q).tag = "Ok"

\* C20: when the query of the search endpoint parses as a Reference and its
\* book matches no abbreviation, the response is a successful empty result
\* set; an error response comes only from a failing storage or pool.
C20_UnknownBookIsEmptyResult ==
    AnsweredReference =>
        /\ (pool = "ok" /\ conn = "up" /\ ResolvedBook(from_str(query_q).book) = NoBook) =>
               (response.status = 200 /\ response.matches = <<>> /\ response.error = "")
        /\ (pool = "ok" /\ conn = "up") => response.status = 200
        /\ response.status # 200 => (response.status = 500 /\ response.error \in {"Db", "Actix"})

\* the query "a1": a well-formed reference to a book nobody knows
C20_Witness ==
    /\ api_pc = "responded"
    /\ query_q = <<"a", "1">>
    /\ from_str(query_q).tag = "Ok"
    /\ from_str(query_q).book = <<"a">>
    /\ pool = "ok"
    /\ conn = "up"
    /\ response = [status |-> 200, matches |-> <<>>, error |-> ""]

(***************************************************************************)
(* Properties of the reference endpoint.                                   *)
(***************************************************************************)
\* C21: on the reference endpoint a well-formed reference whose book matches
\* no abbreviation is answered with a BookNotFound error response, never with
\* a success response, and an input that does not parse with an error
\* response.
C21_ErrorsAreReturned ==
    ref_pc = "responded" =>
        /\ (from_str(query_q).tag = "Ok" /\ pool = "ok" /\ conn = "up"
            /\ ResolvedBook(from_str(query_q).book) = NoBook) =>
               (ref_response.status # 200 /\ ref_response.error = "BookNotFound")
        /\ from_str(query_q).tag = "InvalidReference" => ref_response.status # 200

(***************************************************************************)
(* Properties of the errors of Reference::from_str.                        *)
(***************************************************************************)
\* C22: every InvalidReference that from_str returns carries the complete
\* raw input, whichever buffer failed and also when the input was too long.
C22_InvalidReferenceCarriesRaw ==
    (Returned /\ result.tag = "InvalidReference") => result.reference = s

\* the failure names one of the verse buffers, not the input ("John 3:\u00b2")
C22_FailedVerseBuffer ==
    /\ Returned
    /\ result.tag = "InvalidReference"
    /\ Len(s) <= MAX_REFERENCE_SIZE
    /\ result.reference # s

RECURSIVE StripZeros(_)
\* a numeral without its leading zeros
StripZeros(buf) ==
    IF Len(buf) > 1 /\ buf[1] = "0" THEN StripZeros(Tail(buf)) ELSE buf

I32MaxDigits == <<"2", "1", "4", "7", "4", "8", "3", "6", "4", "7">>

\* a is a longer numeral than b or the larger one of the same length
NumeralGreater(a, b) ==
    \/ Len(a) > Len(b)
    \/ /\ Len(a) = Len(b)
       /\ \E k \in 1..Len(a) :
              /\ DigitValue(a[k]) > DigitValue(b[k])
              /\ \A j \in 1..(k - 1) : a[j] = b[j]

\* buf is a string of decimal digits whose value is beyond the largest i32
ExceedsI32(buf) ==
    /\ buf # <<>>
    /\ \A k \in 1..Len(buf) : IsAsciiDigit(buf[k])
    /\ NumeralGreater(StripZeros(buf), I32MaxDigits)

\* what an accepted number must be: not negative, and printed it is the digit
\* string it was read from, leading zeros aside
ExactlyParsed(n, buf) == n >= 0 /\ Decimal(n) = StripZeros(buf)

\* every number of an accepted citation is exactly the number of its buffer
NothingWrapped ==
    Parsed =>
        LET p == Scan(s)
        IN  /\ ExactlyParsed(result.chapter, p.chapter_part)
            /\ result.verses # <<>> =>
                   /\ ExactlyParsed(result.verses[1], p.verse_from_part)
                   /\ ExactlyParsed(result.verses[2],
                                    IF p.verse_to_part = <<>> THEN p.verse_from_part
                                    ELSE p.verse_to_part)

\* C29: a chapter, verse-from or verse-to digit string whose value exceeds the
\* i32 range makes from_str fail with InvalidReference, and no parsed number
\* is ever wrapped, truncated or negative.
C29_OverflowIsInvalidReference ==
    /\ (Returned /\ Len(s) <= MAX_REFERENCE_SIZE
        /\ (\/ ExceedsI32(Scan(s).chapter_part)
            \/ ExceedsI32(Scan(s).verse_from_part)
            \/ ExceedsI32(Scan(s).verse_to_part))) => result.tag = "InvalidReference"
    /\ NothingWrapped

\* C29 with the verse-to digit string counted only where it is read, after a
\* non-empty verse-from: such an input is never accepted, it is an
\* InvalidReference when it has at most 100 bytes, and no parsed number is
\* ever wrapped, truncated or negative.
C29_ReadOverflowIsInvalidReference ==
    /\ (Returned
        /\ (\/ ExceedsI32(Scan(s).chapter_part)
            \/ ExceedsI32(Scan(s).verse_from_part)
            \/ (Scan(s).verse_from_part # <<>> /\ ExceedsI32(Scan(s).verse_to_part)))) =>
           /\ result.tag # "Ok"
           /\ Len(s) <= MAX_REFERENCE_SIZE => result.tag = "InvalidReference"
    /\ NothingWrapped

\* a last verse of 2147483648, one beyond the largest i32, was refused
C29_Witness ==
    /\ Returned
    /\ Scan(s).verse_from_part = <<"1">>
    /\ Scan(s).verse_to_part = <<"2", "1", "4", "7", "4", "8", "3", "6", "4", "8">>
    /\ result.tag = "InvalidReference"

\* the separator characters of a state: those that move the parser on from it
Separators(state) ==
    CASE state = "Chapter" -> {":", "."}
      [] state = "VerseFrom" -> {"-"}
      [] OTHER -> {}

\* character i of str is met in Chapter, VerseFrom or VerseTo and is neither a
\* digit nor the separator of that state
Skipped(str, i) ==
    LET p == ScanBetween(Locals0, str, 1, i - 1)
    IN  /\ p.state \in {"Chapter", "VerseFrom", "VerseTo"}
        /\ ~is_numeric(str[i])
        /\ str[i] \notin Separators(p.state)

\* str without its skipped characters
Deleted(str) ==
    LET kept == {i \in 1..Len(str) : ~Skipped(str, i)}
    IN  [j \in 1..Cardinality(kept) |->
            str[CHOOSE i \in kept : Cardinality({m \in kept : m <= i}) = j]]

\* C26: in Chapter, VerseFrom and VerseTo a character that is neither a digit
\* nor the separator of the state is ignored without error or state change,
\* so the parse result equals that of the input with those characters deleted.
C26_SkippedAreDeleted ==
    Returned => result = from_str(Deleted(s))

\* C26 for the outcome: the locals after the scan are those of the input with
\* the skipped characters deleted, and for an input of at most 100 bytes the
\* result is Ok or InvalidReference as it is for that input, an Ok result
\* being the same reference.
C26_SkippedLeaveOutcome ==
    Returned =>
        /\ Scan(s) = Scan(Deleted(s))
        /\ Len(s) > 0 /\ len(s) <= MAX_REFERENCE_SIZE =>
               /\ result.tag = from_str(Deleted(s)).tag
               /\ result.tag = "Ok" => result = from_str(Deleted(s))

\* an accepted citation with skipped characters in all three states
C26_Witness ==
    /\ Parsed
    /\ s \in NoisyInputs
    /\ \E i, j, k \in 1..Len(s) :
           /\ Skipped(s, i) /\ ScanBetween(Locals0, s, 1, i).state = "Chapter"
           /\ Skipped(s, j) /\ ScanBetween(Locals0, s, 1, j).state = "VerseFrom"
           /\ Skipped(s, k) /\ ScanBetween(Locals0, s, 1, k).state = "VerseTo"
    /\ result.verses # <<>>

\* C27: for every query without a double quote whose cleaned text is not
\* blank, the wildcard of the expression sent to storage comes immediately
\* after a letter, never after a space.
C27_WildcardFollowsLetter ==
    (Asked /\ ~had_quote(query_q)) =>
        /\ Len(sent[1]) >= 2
        /\ sent[1][Len(sent[1])] = "*"
        /\ IsAsciiLetter(sent[1][Len(sent[1]) - 1])

\* C23: storage errors are opaque: for any two different storage failures of
\* the same engine call (here verses and book, on the request of the state)
\* the error returned carries the same generic cause text, so the failure
\* that happened cannot be told from what the caller gets.
C23_StorageErrorsOpaque ==
    /\ (drill_pc = "returned" /\ drill_result.tag = "Other") =>
           \A e \in StorageFailures :
               SwordDrill_verses(reference, format, e) = drill_result
    /\ (book_pc = "returned" /\ book_result.tag = "Other") =>
           \A e \in StorageFailures :
               SwordDrill_book(asked_book, e) = book_result

\* the place of a state on the way Init, Book, Chapter, VerseFrom, VerseTo
Rank(state) ==
    CASE state = "Init" -> 0
      [] state = "Book" -> 1
      [] state = "Chapter" -> 2
      [] state = "VerseFrom" -> 3
      [] state = "VerseTo" -> 4

Buffers == {"book_part", "chapter_part", "verse_from_part", "verse_to_part"}

\* the buffer a character may be appended to in a state
BufferOf(state) ==
    CASE state = "Init" -> "book_part"
      [] state = "Book" -> "book_part"
      [] state = "Chapter" -> "chapter_part"
      [] state = "VerseFrom" -> "verse_from_part"
      [] state = "VerseTo" -> "verse_to_part"

\* a step of the pass: the state does not move back, one more character is
\* consumed when anything changes, and that character is appended to at most
\* one buffer, the one of the current state or, for the first digit met in
\* Book, the chapter buffer
ForwardStep ==
    /\ Rank(scan_p'.state) >= Rank(scan_p.state)
    /\ scan_i' \in {scan_i, scan_i + 1}
    /\ scan_p' # scan_p => scan_i' = scan_i + 1
    /\ \A b \in Buffers :
           \/ scan_p'[b] = scan_p[b]
           \/ /\ scan_i' = scan_i + 1
              /\ scan_p'[b] = Append(scan_p[b], s[scan_i'])
              /\ \A o \in Buffers \ {b} : scan_p'[o] = scan_p[o]
              /\ \/ b = BufferOf(scan_p.state)
                 \/ /\ scan_p.state = "Book" /\ b = "chapter_part"
                    /\ scan_p.chapter_part = <<>> /\ is_numeric(s[scan_i'])

\* C28: the parser is a single forward pass: the state only advances along
\* Init, Book, Chapter, VerseFrom, VerseTo, each character is consumed once
\* and appended to at most one buffer, and over any input the parse finishes
\* after exactly as many steps as the input has characters.
C28_SingleForwardPass ==
    /\ [][ForwardStep]_vars
    /\ [](scan_pc = "done" => scan_i = Len(s))
    /\ <>(scan_pc = "done")

\* C28 with the length check counted: the pass is forward as above, the call
\* always ends, after exactly as many steps as the input has characters when
\* the input has at most 100 bytes and before the first step when it has more.
C28_ForwardPassWithinLimit ==
    /\ [][ForwardStep]_vars
    /\ [](scan_pc = "done" =>
             scan_i = IF len(s) > MAX_REFERENCE_SIZE THEN 0 ELSE Len(s))
    /\ [](scan_pc = "done" => scan_result = from_str(s))
    /\ <>(scan_pc = "done")

\* a pass that went through all five states and ended with a verse range
C28_Witness ==
    /\ scan_pc = "done"
    /\ scan_p.state = "VerseTo"
    /\ scan_i = Len(s)
    /\ scan_result.tag = "Ok"
    /\ scan_result.verses # <<>>
    /\ scan_p.verse_to_part # <<>>

RECURSIVE ChaptersBefore(_)
\* how many chapters the books before book id have together
ChaptersBefore(id) ==
    IF id <= 1 THEN 0 ELSE ChaptersBefore(id - 1) + BOOKS_at(id - 1)[2]

\* the place of a chapter in the Bible read from Genesis 1 on
Position(id, c) == ChaptersBefore(id) + c

LastPosition == Position(66, BOOKS_at(66)[2])

\* the chapter at place n
ChapterAtPosition(n) ==
    LET id == CHOOSE i \in 1..66 :
                  ChaptersBefore(i) < n /\ n <= ChaptersBefore(i) + BOOKS_at(i)[2]
    IN  chapter_url(BOOKS_at(id)[1], n - ChaptersBefore(id))

\* the book of the books table with this name
BookNamed(name) == CHOOSE b \in BibleBooks : b.name = name

\* the links were built for a chapter the book has
BuiltForChapter ==
    link_pc = "built" /\ link_chapter \in 1..link_book.chapter_count

\* C25: for every book and every chapter the book has, previous is none
\* exactly for Genesis 1 and next is none exactly for Revelation 22; every
\* other link is the neighbouring chapter in the order of the Bible, and next
\* of the previous chapter is the chapter itself.
C25_LinksAreNeighbours ==
    BuiltForChapter =>
        LET n == Position(link_book.id, link_chapter)
        IN  /\ links.tag = "Ok"
            /\ links.previous = IF n = 1 THEN <<>> ELSE <<ChapterAtPosition(n - 1)>>
            /\ links.next = IF n = LastPosition THEN <<>> ELSE <<ChapterAtPosition(n + 1)>>
            /\ (links.previous = <<>>) <=> (link_book.name = "Genesis" /\ link_chapter = 1)
            /\ (links.next = <<>>) <=> (link_book.name = "Revelation" /\ link_chapter = 22)
            /\ links.previous # <<>> =>
                   \A build \in {"debug", "release"} :
                       VersesLinks_new(BookNamed(links.previous[1].book),
                                       links.previous[1].chapter, build).next
                           = <<chapter_url(link_book.name, link_chapter)>>

\* the only chapter of a book between two other books of one chapter: 3 John 1
C25_Witness ==
    /\ BuiltForChapter
    /\ link_book.name = "3 John"
    /\ links.previous = <<chapter_url("2 John", 1)>>
    /\ links.next = <<chapter_url("Jude", 1)>>

\* the link names a chapter that a book of the books table has
NamesChapter(l) ==
    \E b \in BibleBooks : b.name = l.book /\ l.chapter \in 1..b.chapter_count

\* C30: every previous and next link that VersesLinks::new produces names an
\* existing chapter, for every reference the JSON reference endpoint can
\* pass, chapter 0 and chapters beyond the last of the book included.
C30_LinksNameChapters ==
    (link_pc = "built" /\ links.tag = "Ok") =>
        /\ \A k \in 1..Len(links.previous) : NamesChapter(links.previous[k])
        /\ \A k \in 1..Len(links.next) : NamesChapter(links.next[k])

\* the requests whose engine call is running
InFlight == {r \in Requests : req_pc[r] \in {"book", "query"}}

\* C24: under any interleaving of concurrent requests each in-flight engine
\* call holds at most one connection checked out of the pool, a request whose
\* call has returned (or has not started) holds none, and the number of
\* checked-out connections never exceeds the number of in-flight calls.
C24_OneHandlePerCall ==
    req_pc # <<>> =>
        /\ \A r \in Requests :
               /\ held[r] \in {0, 1}
               /\ r \notin InFlight => held[r] = 0
        /\ checked_out <= Cardinality(InFlight)
        /\ checked_out <= MAX_SIZE

\* two calls are running with a connection each, beside a request whose call
\* has returned its connection
C24_Witness ==
    /\ req_pc # <<>>
    /\ Cardinality(InFlight) = 2
    /\ checked_out = 2
    /\ \A r \in InFlight : held[r] = 1
    /\ \E r \in Requests : req_pc[r] = "returned" /\ held[r] = 0
====
